---- MODULE Spec2Model ----
(***************************************************************************)
(* The pairing relay bot (forward_pair_webhook.py): the in-memory pairing  *)
(* store _pairs, its JSON file PAIRS_FILE, and the webhook handlers that   *)
(* run as asyncio tasks.  A task runs without interruption from one        *)
(* awaited network call to the next: the store operations and the file     *)
(* write contain no suspension point (asyncio.Lock.acquire returns at once *)
(* when the lock is free, and it is only ever held across synchronous file *)
(* code), so each action below is one such uninterrupted segment.          *)
(*                                                                         *)
(* Spec is the pairing bot; FairSpec adds the progress it makes by itself. *)
(* LockSpec runs the store operations statement by statement, with the     *)
(* lock and the event loop explicit.  LoadSpec applies load_pairs to every *)
(* file of a bounded set.  ForwardSpec is the forward-all program          *)
(* (forward_bot_webhook.py).                                               *)
(***************************************************************************)
EXTENDS Integers, Sequences, FiniteSets, TLC

\* ---------------------------------------------------------------- bounds
MaxId == 2
NumTasks == 2
\* how many times reading or writing PAIRS_FILE may fail in one behaviour
MaxFaults == 1
\* the largest absolute value of a partner id whose JSON text is read back
MaxNumber == 200

\* The chats updates come from.  0 is no chat of the platform, but it is an
\* integer a user can type after /link.
Chats == 1..MaxId

\* ------------------------------------------------------- Python values
\* Optional[int]: None is the empty tuple, an integer n is <<n>>.
None == << >>

Some(n) == <<n>>

\* Python truthiness of an Optional[int]: None and 0 are falsy.
truthy(v) == v # None /\ v[1] # 0

\* str(int): the decimal text of an integer, the key type of _pairs.
str(n) == ToString(n)

EmptyDict == [k \in {} |-> 0]

\* dict.get(key) of a Dict[str, int]
dict_get(d, key) == IF key \in DOMAIN d THEN Some(d[key]) ELSE None

\* d[key] = value
dict_set(d, key, value) ==
    [k \in DOMAIN d \cup {key} |-> IF k = key THEN value ELSE d[k]]

\* d.pop(key, None): the dict without key (the popped value is dict_get)
dict_pop(d, key) == [k \in DOMAIN d \ {key} |-> d[k]]

\* A command argument is a word, modelled as its sequence of characters.
DigitChars == <<"0", "1", "2", "3", "4", "5", "6", "7", "8", "9">>

IsDigit(c) == \E i \in 1..Len(DigitChars) : DigitChars[i] = c

DigitValue(c) == (CHOOSE i \in 1..Len(DigitChars) : DigitChars[i] = c) - 1

IsSign(c) == c \in {"+", "-"}

Digits(w) == IF Len(w) > 0 /\ IsSign(w[1]) THEN Tail(w) ELSE w

\* int(word) raises ValueError unless the word is an optionally signed run
\* of decimal digits.
int_raises(w) ==
    \/ Len(Digits(w)) = 0
    \/ \E i \in 1..Len(Digits(w)) : ~IsDigit(Digits(w)[i])

RECURSIVE digits_value(_)
digits_value(ds) ==
    IF Len(ds) = 0 THEN 0
    ELSE 10 * digits_value(SubSeq(ds, 1, Len(ds) - 1)) + DigitValue(ds[Len(ds)])

\* int(word) for a word that does not raise
int(w) ==
    IF Len(w) > 0 /\ w[1] = "-" THEN 0 - digits_value(Digits(w))
    ELSE digits_value(Digits(w))

RECURSIVE decimal(_)
\* The decimal digits of a natural number, as a word
decimal(n) ==
    IF n < 10 THEN <<DigitChars[n + 1]>>
    ELSE Append(decimal(n \div 10), DigitChars[(n % 10) + 1])

\* json.dump of an int: its decimal text, with a minus sign when negative
json_int(n) == IF n < 0 THEN <<"-">> \o decimal(0 - n) ELSE decimal(n)

\* The words the model types after /link: every identity 0..MaxId in
\* decimal, one of them a second time with a leading zero, and a non-number.
Words ==
    {decimal(n) : n \in 0..MaxId}
        \cup {<<"0", "1">>, <<"a", "b", "c">>}

ArgLists == {<< >>} \cup {<<w>> : w \in Words}

\* ------------------------------------------------------------ updates
\* The author of a message: a person, an automated account, or none
\* (msg.from_user is None).
Authors == {"user", "bot", "none"}

ChatTypes == {"private", "group"}

\* An inbound update, as the handlers read it: effective_chat.id and .type,
\* the command (or "text" for a message that is no command), context.args
\* and the author.
Updates ==
    [chat : Chats,
     type : ChatTypes,
     command : {"/start", "/myid", "/link", "/unlink", "/other", "text"},
     args : ArgLists,
     from_user : Authors]

\* Words after the command exist only for commands, and only /link reads
\* them; only relay_messages reads the chat type and the author.
WellFormed(u) ==
    /\ u.command # "/link" => u.args = << >>
    /\ u.command # "text" => u.from_user = "user" /\ u.type = "private"

CommandUpdates(c) == {u \in Updates : WellFormed(u) /\ u.command = c}

WEBHOOK_SECRET_TOKEN == "use-long-random"

Headers == {WEBHOOK_SECRET_TOKEN, "wrong-secret"}

\* -------------------------------------------------------------- state
VARIABLES
    up,         \* the application has started and serves the webhook
    _pairs,     \* Dict[str, int]: str(chat_id) -> partner_id
    file,       \* PAIRS_FILE: [state: absent | json | corrupt, data: key -> number text]
    pc,         \* pc[t]: where task t is suspended
    update,     \* update[t]: the update task t handles
    other,      \* other[t]: the handler's local `other` / `partner`
    sent,       \* sent[t]: the Bot API calls task t has made for its update
    faults,     \* how many file operations have failed so far
    linked,     \* history: <<s, t>> after s ran /link t, until s or t is
                \* named in a later /link or /unlink
    _pairs_lock,        \* asyncio.Lock: TRUE while it is locked
    TARGET_CHAT_ID,     \* forward_bot_webhook.py: the configured target
    SOURCE_CHAT_ID      \* forward_bot_webhook.py: Optional[int], the only
                        \* source accepted when it is set

store == <<_pairs, file, faults, _pairs_lock>>
tasks == <<pc, update, other, sent>>
\* The configuration of the forward-all program; the pairing program reads
\* neither.
config == <<TARGET_CHAT_ID, SOURCE_CHAT_ID>>
vars ==
    <<up, _pairs, file, faults, pc, update, other, sent, linked, _pairs_lock,
      TARGET_CHAT_ID, SOURCE_CHAT_ID>>

Tasks == 1..NumTasks

\* No update: the task is idle.
NoUpdate ==
    [chat |-> 0, type |-> "none", command |-> "none", args |-> << >>,
     from_user |-> "none"]

AbsentFile == [state |-> "absent", data |-> EmptyDict]

Init ==
    /\ up = FALSE
    /\ _pairs = EmptyDict
    /\ file = AbsentFile
    /\ faults = 0
    /\ pc = [t \in Tasks |-> "idle"]
    /\ update = [t \in Tasks |-> NoUpdate]
    /\ other = [t \in Tasks |-> None]
    /\ sent = [t \in Tasks |-> << >>]
    /\ linked = {}
    /\ _pairs_lock = FALSE
    /\ TARGET_CHAT_ID = 0
    /\ SOURCE_CHAT_ID = None

\* ------------------------------------------------------ pairing store
\* What open()/json.load, or _ensure_dir/open()/json.dump, can do.
LoadOutcomes == {"ok", "oserror"}
SaveOutcomes == {"ok", "oserror_open", "oserror_write"}

\* A json.dump that leaves out the entries whose value is falsy
json_dump_truthy(d) == [k \in {j \in DOMAIN d : d[j] # 0} |-> json_int(d[k])]

\* The file's text for a store: every key with its value as a JSON number.
json_dump(d) == [k \in DOMAIN d |-> json_int(d[k])]

\* {k: int(v) for k, v in json.load(f).items()}
json_load(data) == [k \in DOMAIN data |-> int(data[k])]

\* What the with-block of load_pairs does under an outcome of open(): it
\* raises unless the file opens and holds a mapping whose every value goes
\* through int().
load_raises(outcome) ==
    ~ /\ outcome = "ok"
      /\ file.state = "json"
      /\ \A k \in DOMAIN file.data : ~int_raises(file.data[k])

\* A load_pairs without its except clause: the store is left as it was
\* when the with-block raises
load_pairs_no_except ==
    IF file.state = "absent"
    THEN _pairs' = EmptyDict /\ UNCHANGED <<faults, _pairs_lock>>
    ELSE \E outcome \in LoadOutcomes :
            /\ _pairs_lock = FALSE
            /\ _pairs_lock' = FALSE
            /\ outcome # "ok" => faults < MaxFaults
            /\ faults' = IF outcome = "ok" THEN faults ELSE faults + 1
            /\ IF load_raises(outcome)
               THEN _pairs' = _pairs
               ELSE _pairs' = json_load(file.data)

\* load_pairs: empty when the file is absent; otherwise the file's mapping
\* with every value through int(); any exception leaves the store empty.
\* The lock is free when the segment starts, so `async with` takes it at
\* once, and it is released when the block is left.
load_pairs ==
    IF file.state = "absent"
    THEN _pairs' = EmptyDict /\ UNCHANGED <<faults, _pairs_lock>>
    ELSE \E outcome \in LoadOutcomes :
            /\ _pairs_lock = FALSE
            /\ _pairs_lock' = FALSE
            /\ outcome # "ok" => faults < MaxFaults
            /\ faults' = IF outcome = "ok" THEN faults ELSE faults + 1
            /\ IF load_raises(outcome)
               THEN _pairs' = EmptyDict
               ELSE _pairs' = json_load(file.data)

\* A save_pairs that writes the store as it was before the operation
written_before(outcome, d) ==
    CASE outcome = "ok" -> [state |-> "json", data |-> json_dump(_pairs)]
      [] outcome = "oserror_open" -> file
      [] OTHER -> [state |-> "corrupt", data |-> EmptyDict]

\* PAIRS_FILE after the with-block of save_pairs ran on the store d.  A
\* failure before the file is opened leaves the file as it was; open(.., "w")
\* truncates, so a failure while writing leaves no parseable mapping.
written(outcome, d) ==
    CASE outcome = "ok" -> [state |-> "json", data |-> json_dump(d)]
      [] outcome = "oserror_open" -> file
      [] OTHER -> [state |-> "corrupt", data |-> EmptyDict]

\* save_pairs: json.dump of the store as it is when save_pairs runs; an
\* exception is logged and swallowed.  The lock is free when the segment
\* starts, so `async with` takes it at once, and it is released when the
\* block is left.
save_pairs ==
    \E outcome \in SaveOutcomes :
        /\ _pairs_lock = FALSE
        /\ _pairs_lock' = FALSE
        /\ outcome # "ok" => faults < MaxFaults
        /\ faults' = IF outcome = "ok" THEN faults ELSE faults + 1
        /\ file' = written(outcome, _pairs')

get_partner(chat_id) == dict_get(_pairs, str(chat_id))

\* A set_pair that writes one direction only
set_pair_one_way(a, b) == dict_set(_pairs, str(a), b)

\* The store after _pairs[str(a)] = b; _pairs[str(b)] = a
set_pair_store(a, b) == dict_set(dict_set(_pairs, str(a), b), str(b), a)

set_pair(a, b) ==
    /\ _pairs' = set_pair_store(a, b)
    /\ save_pairs

\* An unlink that removes a's own entry only
unlink_own_only(a) == dict_pop(_pairs, str(a))

\* An unlink that removes the partner's entry only
unlink_partner_only(a) ==
    LET b == dict_get(_pairs, str(a))
    IN  IF b # None THEN dict_pop(_pairs, str(b[1])) ELSE _pairs

\* unlink: b = _pairs.pop(str(a), None); if b is not None: pop str(b) too
unlink_store(a) ==
    LET b == dict_get(_pairs, str(a))
        d == dict_pop(_pairs, str(a))
    IN  IF b # None THEN dict_pop(d, str(b[1])) ELSE d

unlink_return(a) == dict_get(_pairs, str(a))

unlink(a) ==
    /\ _pairs' = unlink_store(a)
    /\ save_pairs

\* ------------------------------------------------------- Bot API calls
\* One call of the Bot API: reply_text / reply_html (to the update's chat),
\* send_message, copy_message; `text` names the message and `arg` is the
\* identity it quotes (None when it quotes none).  The call is pending
\* until the awaited request ends.
call(api, chat, text, arg) ==
    [api |-> api, chat |-> chat, text |-> text, arg |-> arg, result |-> "pending"]

\* An awaited call returns or raises.
Results == {"ok", "raised"}

\* The calls of a task once its last, awaited call has ended with result r
ended(calls, r) == [calls EXCEPT ![Len(calls)].result = r]

\* ------------------------------------------------------------ history
\* L without the pairs that name identity c
forget(L, c) == {p \in L : p[1] # c /\ p[2] # c}

\* -------------------------------------------------------- the webhook
\* telegram_webhook accepts update u for task t (the secret header matches)
\* and process_update runs the handler registered for it.
accept(t, u) ==
    /\ up
    /\ pc[t] = "idle"
    /\ \E header \in Headers : header = WEBHOOK_SECRET_TOKEN
    /\ update' = [update EXCEPT ![t] = u]

\* The handler of task t awaits the Bot API call c and goes on at `at`.
await(t, c, at) ==
    /\ sent' = [sent EXCEPT ![t] = Append(@, c)]
    /\ pc' = [pc EXCEPT ![t] = at]

\* The handler of task t returns without having awaited a Bot API call.
return(t) ==
    /\ pc' = [pc EXCEPT ![t] = "done"]
    /\ UNCHANGED sent

\* A request whose secret header is wrong: 401, the body is not read.
telegram_webhook_401(t) ==
    /\ up
    /\ pc[t] = "idle"
    /\ \E header \in Headers : header # WEBHOOK_SECRET_TOKEN
    /\ pc' = [pc EXCEPT ![t] = "rejected"]
    /\ UNCHANGED <<up, store, update, other, sent, linked, config>>

\* A command no handler is registered for: process_update finds no handler.
no_handler(t) ==
    \E u \in CommandUpdates("/other") :
        /\ accept(t, u)
        /\ return(t)
        /\ UNCHANGED <<up, store, other, linked, config>>

start_cmd(t) ==
    \E u \in CommandUpdates("/start") :
        /\ accept(t, u)
        /\ LET partner == get_partner(u.chat)
           IN  /\ other' = [other EXCEPT ![t] = partner]
               /\ IF truthy(partner)
                  THEN await(t, call("reply_html", u.chat, "start_linked", partner),
                             "reply")
                  ELSE await(t, call("reply_html", u.chat, "start_unlinked", None),
                             "reply")
        /\ UNCHANGED <<up, store, linked, config>>

myid_cmd(t) ==
    \E u \in CommandUpdates("/myid") :
        /\ accept(t, u)
        /\ await(t, call("reply_html", u.chat, "myid", Some(u.chat)), "reply")
        /\ UNCHANGED <<up, store, other, linked, config>>

\* A link_cmd whose first two error replies are swapped
link_check_swapped(chat, args) ==
    IF args = << >> THEN "not_number"
    ELSE IF int_raises(args[1]) THEN "need_id"
    ELSE IF int(args[1]) = chat THEN "self_link"
    ELSE "ok"

\* A link_cmd that does not compare the target with the invoker
link_check_no_self(chat, args) ==
    IF args = << >> THEN "need_id"
    ELSE IF int_raises(args[1]) THEN "not_number"
    ELSE "ok"

\* The checks of link_cmd before it touches the store
link_check(chat, args) ==
    IF args = << >> THEN "need_id"
    ELSE IF int_raises(args[1]) THEN "not_number"
    ELSE IF int(args[1]) = chat THEN "self_link"
    ELSE "ok"

link_cmd(t) ==
    \E u \in CommandUpdates("/link") :
        /\ accept(t, u)
        /\ LET check == link_check(u.chat, u.args)
           IN  IF check # "ok"
               THEN /\ await(t, call("reply_text", u.chat, check, None), "reply")
                    /\ linked' = forget(linked, u.chat)
                    /\ UNCHANGED <<store, other>>
               ELSE LET target == int(u.args[1])
                    IN  /\ set_pair(u.chat, target)
                        /\ other' = [other EXCEPT ![t] = Some(target)]
                        /\ await(t, call("send_message", target, "notify_linked",
                                         Some(u.chat)), "notify")
                        /\ linked' = forget(forget(linked, u.chat), target)
                                         \cup {<<u.chat, target>>}
        /\ UNCHANGED <<up, config>>

unlink_cmd(t) ==
    \E u \in CommandUpdates("/unlink") :
        /\ accept(t, u)
        /\ LET b == unlink_return(u.chat)
           IN  /\ unlink(u.chat)
               /\ other' = [other EXCEPT ![t] = b]
               /\ IF truthy(b)
                  THEN await(t, call("send_message", b[1], "notify_unlinked", None),
                             "notify")
                  ELSE await(t, call("reply_text", u.chat, "no_link", None), "reply")
               /\ linked' = forget(linked, u.chat)
        /\ UNCHANGED <<up, config>>

relay_messages(t) ==
    \E u \in CommandUpdates("text") :
        /\ accept(t, u)
        /\ IF u.type # "private" \/ u.from_user = "bot"
           THEN return(t) /\ UNCHANGED other
           ELSE LET partner == get_partner(u.chat)
                IN  /\ other' = [other EXCEPT ![t] = partner]
                    /\ IF ~truthy(partner)
                       THEN return(t)
                       ELSE await(t, call("copy_message", partner[1], "copy",
                                          Some(u.chat)), "copy")
        /\ UNCHANGED <<up, store, linked, config>>

\* The task is over: the request is answered, {"ok": True} or 401.
finish(t) ==
    /\ pc' = [pc EXCEPT ![t] = "idle"]
    /\ update' = [update EXCEPT ![t] = NoUpdate]
    /\ other' = [other EXCEPT ![t] = None]
    /\ sent' = [sent EXCEPT ![t] = << >>]

\* The reply link_cmd and unlink_cmd end with, after the partner was told
confirmation(u, partner) ==
    IF u.command = "/link"
    THEN call("reply_html", u.chat, "linked", partner)
    ELSE call("reply_text", u.chat, "unlinked", None)

\* A handler that lets the exception of send_message leave it: the update
\* is answered without the confirmation.
send_message_propagates(t, r) ==
    IF r = "raised"
    THEN finish(t)
    ELSE /\ sent' = [sent EXCEPT ![t] =
                        Append(ended(@, r), confirmation(update[t], other[t]))]
         /\ pc' = [pc EXCEPT ![t] = "reply"]
         /\ UNCHANGED <<update, other>>

\* link_cmd and unlink_cmd after the awaited send_message to the partner
\* ended with result r: `except Exception: pass`, so the handler goes on to
\* its confirmation either way.
after_send_message(t, r) ==
    /\ sent' = [sent EXCEPT ![t] =
                   Append(ended(@, r), confirmation(update[t], other[t]))]
    /\ pc' = [pc EXCEPT ![t] = "reply"]
    /\ UNCHANGED <<update, other>>

send_message_returns(t) ==
    /\ pc[t] = "notify"
    /\ \E r \in Results : after_send_message(t, r)
    /\ UNCHANGED <<up, store, linked, config>>

\* relay_messages after the awaited copy_message ended with result r: the
\* exception is logged, the handler returns either way.
after_copy_message(t, r) ==
    /\ sent' = [sent EXCEPT ![t] = ended(@, r)]
    /\ pc' = [pc EXCEPT ![t] = "done"]
    /\ UNCHANGED <<update, other>>

copy_message_returns(t) ==
    /\ pc[t] = "copy"
    /\ \E r \in Results : after_copy_message(t, r)
    /\ UNCHANGED <<up, store, linked, config>>

\* The awaited reply returns or raises; the handler ends (process_update
\* logs an exception that leaves a handler) and the request is answered.
reply_returns(t) ==
    /\ pc[t] = "reply"
    /\ \E r \in Results : finish(t)
    /\ UNCHANGED <<up, store, linked, config>>

\* The handler has returned, or the request was refused: the response is
\* sent.
respond(t) ==
    /\ pc[t] \in {"done", "rejected"}
    /\ finish(t)
    /\ UNCHANGED <<up, store, linked, config>>

\* ----------------------------------------------------------- lifecycle
on_startup ==
    /\ ~up
    /\ load_pairs
    /\ up' = TRUE
    /\ UNCHANGED <<file, tasks, linked, config>>

\* The server stops once its requests are answered; the process ends and
\* with it the in-memory store.
on_shutdown ==
    /\ up
    /\ \A t \in DOMAIN pc : pc[t] = "idle"
    /\ up' = FALSE
    /\ _pairs' = EmptyDict
    /\ linked' = {}
    /\ UNCHANGED <<file, faults, _pairs_lock, tasks, config>>

Next ==
    \/ on_startup
    \/ on_shutdown
    \/ \E t \in Tasks :
        \/ telegram_webhook_401(t)
        \/ no_handler(t)
        \/ start_cmd(t)
        \/ myid_cmd(t)
        \/ link_cmd(t)
        \/ unlink_cmd(t)
        \/ relay_messages(t)
        \/ send_message_returns(t)
        \/ copy_message_returns(t)
        \/ reply_returns(t)
        \/ respond(t)

Spec == Init /\ [][Next]_vars

\* Spec with the progress the program itself makes: once a handler has
\* returned the response is sent, and an awaited reply to the invoker
\* ends.  Nothing is assumed about when, or whether, an awaited
\* send_message to the partner or copy_message ends: lines 122, 139 and 161
\* await the call with no timeout of their own.
FairSpec ==
    /\ Spec
    /\ \A t \in Tasks : WF_vars(respond(t)) /\ WF_vars(reply_returns(t))

\* ================================================ the forward-all program
\* forward_bot_webhook.py: no store; every message is copied to one target
\* chat, from any chat or from one source chat only.
\* An environment variable: None when unset, else its text (maybe empty).
Env == {None} \cup {Some(w) : w \in Words \cup {<< >>}}

\* TARGET_CHAT_ID = int(os.getenv("TARGET_CHAT_ID", "0"))
target_chat_id(env) == int(IF env = None THEN <<"0">> ELSE env[1])

\* SOURCE_CHAT_ID = int(os.getenv(..)) if os.getenv(..) else None
source_chat_id(env) ==
    IF env = None \/ env[1] = << >> THEN None ELSE Some(int(env[1]))

\* The module does not load: int() raises on a variable's text, or
\* `not TARGET_CHAT_ID` ends it with SystemExit.
config_rejected(target_env, source_env) ==
    \/ target_env # None /\ int_raises(target_env[1])
    \/ source_env # None /\ source_env[1] # << >> /\ int_raises(source_env[1])
    \/ target_chat_id(target_env) = 0

\* The module has loaded with an accepted configuration.
ForwardInit ==
    /\ \E target_env \in Env, source_env \in Env :
        /\ ~config_rejected(target_env, source_env)
        /\ TARGET_CHAT_ID = target_chat_id(target_env)
        /\ SOURCE_CHAT_ID = source_chat_id(source_env)
    /\ up = FALSE
    /\ _pairs = EmptyDict
    /\ file = AbsentFile
    /\ faults = 0
    /\ pc = [t \in Tasks |-> "idle"]
    /\ update = [t \in Tasks |-> NoUpdate]
    /\ other = [t \in Tasks |-> None]
    /\ sent = [t \in Tasks |-> << >>]
    /\ linked = {}
    /\ _pairs_lock = FALSE

forward_on_startup ==
    /\ ~up
    /\ up' = TRUE
    /\ UNCHANGED <<store, tasks, linked, config>>

forward_on_shutdown ==
    /\ up
    /\ \A t \in DOMAIN pc : pc[t] = "idle"
    /\ up' = FALSE
    /\ UNCHANGED <<store, tasks, linked, config>>

forward_start_cmd(t) ==
    \E u \in CommandUpdates("/start") :
        /\ accept(t, u)
        /\ await(t, call("reply_text", u.chat,
                         IF truthy(SOURCE_CHAT_ID) THEN "source_restricted"
                         ELSE "source_any",
                         Some(TARGET_CHAT_ID)), "reply")
        /\ UNCHANGED <<up, store, other, linked, config>>

\* A forward_all without the check that stops a message of the target
forwards_target_too(chat) ==
    ~(truthy(SOURCE_CHAT_ID) /\ chat # SOURCE_CHAT_ID[1])

\* forward_all goes on to copy_message for a message of `chat`: neither
\* `if SOURCE_CHAT_ID and chat.id != SOURCE_CHAT_ID` nor
\* `if chat.id == TARGET_CHAT_ID` returns.
forwards(chat) ==
    /\ ~(truthy(SOURCE_CHAT_ID) /\ chat # SOURCE_CHAT_ID[1])
    /\ chat # TARGET_CHAT_ID

\* MessageHandler(filters.ALL, forward_all): every message that is not the
\* /start command.
forward_all(t) ==
    \E u \in CommandUpdates("text") \cup CommandUpdates("/other") :
        /\ accept(t, u)
        /\ IF forwards(u.chat)
           THEN await(t, call("copy_message", TARGET_CHAT_ID, "copy", Some(u.chat)),
                      "copy")
           ELSE return(t)
        /\ UNCHANGED <<up, store, other, linked, config>>

\* The awaited copy_message returns, or raises: the exception leaves
\* forward_all and process_update logs it.  The handler is over either way.
forward_all_ends(t) ==
    /\ pc[t] = "copy"
    /\ \E r \in Results :
        /\ sent' = [sent EXCEPT ![t] = ended(@, r)]
        /\ pc' = [pc EXCEPT ![t] = "done"]
    /\ UNCHANGED <<up, store, update, other, linked, config>>

ForwardNext ==
    \/ forward_on_startup
    \/ forward_on_shutdown
    \/ \E t \in Tasks :
        \/ telegram_webhook_401(t)
        \/ forward_start_cmd(t)
        \/ forward_all(t)
        \/ forward_all_ends(t)
        \/ reply_returns(t)
        \/ respond(t)

ForwardSpec == ForwardInit /\ [][ForwardNext]_vars

\* ===================================================== load_pairs alone
\* load_pairs as a function of the file it finds and of the store it
\* replaces.  A file is absent, no JSON at all ("corrupt"), JSON that is no
\* object ("array"), or a JSON object whose values are number or string
\* texts.
Stores ==
    {EmptyDict}
        \cup {dict_set(dict_set(EmptyDict, str(p[1]), p[2]), str(p[2]), p[1]) :
                    p \in {q \in Chats \X (0..MaxId) : q[1] # q[2]}}

Mappings ==
    UNION {[keys -> Words] : keys \in SUBSET {str(n) : n \in 0..MaxId}}

Files ==
    {AbsentFile}
        \cup {[state |-> st, data |-> EmptyDict] : st \in {"corrupt", "array"}}
        \cup {[state |-> "json", data |-> data] : data \in Mappings}

LoadInit ==
    /\ up = FALSE
    /\ _pairs \in Stores
    /\ file \in Files
    /\ faults = 0
    /\ pc = [t \in Tasks |-> "idle"]
    /\ update = [t \in Tasks |-> NoUpdate]
    /\ other = [t \in Tasks |-> None]
    /\ sent = [t \in Tasks |-> << >>]
    /\ linked = {}
    /\ _pairs_lock = FALSE
    /\ TARGET_CHAT_ID = 0
    /\ SOURCE_CHAT_ID = None

LoadSpec == LoadInit /\ [][on_startup]_vars

\* ================================================= the lock, step by step
\* The store operations of /link and /unlink at the grain of their
\* statements: the mutation of _pairs, `async with _pairs_lock`, the file
\* code inside it, the release.  The event loop runs one task at a time; a
\* task that is running goes on until it reaches an await that has to
\* wait.  on_startup is the task StartupTask.
StartupTask == 0

LockTasks == {StartupTask} \cup Tasks

\* A position at which a task has given up the event loop: an awaited Bot
\* API call as if set_pair gave up the loop before it saves
suspended_before_save(p) ==
    p \in {"idle", "wait_lock", "notify", "reply", "save_pairs"}

\* A position at which a task has given up the event loop: between
\* requests, waiting for the lock, or in an awaited Bot API call.
suspended(p) == p \in {"idle", "wait_lock", "notify", "reply"}

\* Task t may run: no other task is in the middle of a segment.
loop_free(t) == \A s \in DOMAIN pc \ {t} : suspended(pc[s])

LockInit ==
    /\ up = FALSE
    /\ _pairs = EmptyDict
    /\ file = AbsentFile
    /\ faults = 0
    /\ pc = [t \in LockTasks |-> "idle"]
    /\ update = [t \in LockTasks |-> NoUpdate]
    /\ other = [t \in LockTasks |-> None]
    /\ sent = [t \in LockTasks |-> << >>]
    /\ linked = {}
    /\ _pairs_lock = FALSE
    /\ TARGET_CHAT_ID = 0
    /\ SOURCE_CHAT_ID = None

\* on_startup calls load_pairs: an absent file is answered without the lock.
load_pairs_called ==
    /\ ~up
    /\ pc[StartupTask] = "idle"
    /\ IF file.state = "absent"
       THEN /\ _pairs' = EmptyDict
            /\ up' = TRUE
            /\ UNCHANGED pc
       ELSE /\ pc' = [pc EXCEPT ![StartupTask] = "load_pairs"]
            /\ UNCHANGED <<_pairs, up>>
    /\ UNCHANGED <<file, faults, _pairs_lock, update, other, sent, linked, config>>

\* link_cmd up to the call of save_pairs: the checks, then set_pair's two
\* assignments.
set_pair_called(t) ==
    \E u \in CommandUpdates("/link") :
        /\ loop_free(t)
        /\ accept(t, u)
        /\ link_check(u.chat, u.args) = "ok"
        /\ _pairs' = set_pair_store(u.chat, int(u.args[1]))
        /\ other' = [other EXCEPT ![t] = Some(int(u.args[1]))]
        /\ pc' = [pc EXCEPT ![t] = "save_pairs"]
        /\ UNCHANGED <<up, file, faults, _pairs_lock, sent, linked, config>>

\* unlink_cmd up to the call of save_pairs: unlink's pops.
unlink_called(t) ==
    \E u \in CommandUpdates("/unlink") :
        /\ loop_free(t)
        /\ accept(t, u)
        /\ _pairs' = unlink_store(u.chat)
        /\ other' = [other EXCEPT ![t] = unlink_return(u.chat)]
        /\ pc' = [pc EXCEPT ![t] = "save_pairs"]
        /\ UNCHANGED <<up, file, faults, _pairs_lock, sent, linked, config>>

\* `async with _pairs_lock`: Lock.acquire takes a free lock at once and
\* suspends the task while the lock is held; a waiting task is woken once
\* the lock is free.
acquire(t) ==
    /\ loop_free(t)
    /\ pc[t] \in {"load_pairs", "save_pairs", "wait_lock"}
    /\ pc[t] = "wait_lock" => ~_pairs_lock
    /\ IF _pairs_lock
       THEN /\ pc' = [pc EXCEPT ![t] = "wait_lock"]
            /\ UNCHANGED _pairs_lock
       ELSE /\ pc' = [pc EXCEPT ![t] = "locked"]
            /\ _pairs_lock' = TRUE
    /\ UNCHANGED <<up, _pairs, file, faults, update, other, sent, linked, config>>

\* The with-block of load_pairs: open, json.load, the assignment of _pairs.
read_pairs ==
    /\ pc[StartupTask] = "locked"
    /\ \E outcome \in LoadOutcomes :
        /\ outcome # "ok" => faults < MaxFaults
        /\ faults' = IF outcome = "ok" THEN faults ELSE faults + 1
        /\ IF load_raises(outcome)
           THEN /\ pc' = [pc EXCEPT ![StartupTask] = "raised"]
                /\ UNCHANGED _pairs
           ELSE /\ pc' = [pc EXCEPT ![StartupTask] = "left"]
                /\ _pairs' = json_load(file.data)
    /\ UNCHANGED <<up, file, _pairs_lock, update, other, sent, linked, config>>

\* The with-block of save_pairs: _ensure_dir, open, json.dump.
write_pairs(t) ==
    /\ pc[t] = "locked"
    /\ \E outcome \in SaveOutcomes :
        /\ outcome # "ok" => faults < MaxFaults
        /\ faults' = IF outcome = "ok" THEN faults ELSE faults + 1
        /\ file' = written(outcome, _pairs)
        /\ pc' = [pc EXCEPT ![t] = IF outcome = "ok" THEN "left" ELSE "raised"]
    /\ UNCHANGED <<up, _pairs, _pairs_lock, update, other, sent, linked, config>>

\* A with-block that releases the lock only when it is left normally
release_unless_raised(t) ==
    _pairs_lock' = IF pc[t] = "raised" THEN _pairs_lock ELSE FALSE

\* Leaving `async with _pairs_lock`, normally or by an exception: the lock
\* is released.
release(t) == _pairs_lock' = FALSE

\* load_pairs leaves the with-block; its except clause empties the store;
\* on_startup goes on and the application serves.
load_pairs_returns ==
    /\ pc[StartupTask] \in {"left", "raised"}
    /\ release(StartupTask)
    /\ _pairs' = IF pc[StartupTask] = "raised" THEN EmptyDict ELSE _pairs
    /\ pc' = [pc EXCEPT ![StartupTask] = "idle"]
    /\ up' = TRUE
    /\ UNCHANGED <<file, faults, update, other, sent, linked, config>>

\* save_pairs leaves the with-block and returns (an exception is logged),
\* set_pair / unlink returns, and the handler goes on to its next await.
save_pairs_returns(t) ==
    /\ pc[t] \in {"left", "raised"}
    /\ release(t)
    /\ IF update[t].command = "/link"
       THEN await(t, call("send_message", other[t][1], "notify_linked",
                          Some(update[t].chat)), "notify")
       ELSE IF truthy(other[t])
       THEN await(t, call("send_message", other[t][1], "notify_unlinked", None),
                  "notify")
       ELSE await(t, call("reply_text", update[t].chat, "no_link", None), "reply")
    /\ UNCHANGED <<up, _pairs, file, faults, update, other, linked, config>>

\* An awaited Bot API call ends and its task runs on once the loop is free.
resumed(t) ==
    /\ loop_free(t)
    /\ send_message_returns(t) \/ reply_returns(t)

\* The steps a task takes without waiting for anything but the event loop
runs(t) ==
    IF t = StartupTask
    THEN acquire(t) \/ read_pairs \/ load_pairs_returns
    ELSE acquire(t) \/ write_pairs(t) \/ save_pairs_returns(t)

LockNext ==
    \/ load_pairs_called
    \/ read_pairs
    \/ load_pairs_returns
    \/ on_shutdown
    \/ \E t \in LockTasks : acquire(t)
    \/ \E t \in Tasks :
        \/ set_pair_called(t)
        \/ unlink_called(t)
        \/ write_pairs(t)
        \/ save_pairs_returns(t)
        \/ resumed(t)

\* The event loop keeps running a task that can run.
LockSpec ==
    /\ LockInit
    /\ [][LockNext]_vars
    /\ \A t \in LockTasks : WF_vars(runs(t))

\* ============================================================ claims
\* Every identity that can be a key or a value of the store
Ids == 0..MaxId

cid(t) == update[t].chat

\* Task t runs the first segment of the handler of `command` in this step:
\* from the accepted update up to its first awaited call (or its return).
starts(t, command) ==
    /\ pc[t] = "idle"
    /\ pc'[t] # "idle"
    /\ update'[t].command = command

\* The partner the store holds for identity a after the step
get_partner_after(a) == dict_get(_pairs', str(a))

\* C1: the store is symmetric in every reachable state: whenever
\* get_partner(A) is B, get_partner(B) is A.
C1_Symmetry ==
    \A a \in Ids, b \in Ids :
        get_partner(a) = Some(b) => get_partner(b) = Some(a)

\* C2: a step in which link_cmd calls set_pair(a, b) ends with
\* get_partner(a) = b and get_partner(b) = a, and leaves every entry keyed
\* by another identity exactly as it was.
C2_SetPair ==
    [][\A t \in Tasks :
        (starts(t, "/link") /\ pc'[t] = "notify") =>
            LET a == update'[t].chat
                b == other'[t][1]
            IN  /\ a # b
                /\ get_partner_after(a) = Some(b)
                /\ get_partner_after(b) = Some(a)
                /\ \A k \in (DOMAIN _pairs \cup DOMAIN _pairs') \ {str(a), str(b)} :
                       dict_get(_pairs', k) = dict_get(_pairs, k)]_vars

\* C2 witness: set_pair(a, b) has just run on a store that holds an entry
\* of a third identity.
C2_Witness ==
    \E t \in Tasks :
        /\ pc[t] = "notify"
        /\ update[t].command = "/link"
        /\ get_partner(cid(t)) = other[t]
        /\ get_partner(other[t][1]) = Some(cid(t))
        /\ \E k \in DOMAIN _pairs : k \notin {str(cid(t)), str(other[t][1])}

\* C3: the pairing is 1:1 in every reachable state: no identity is the
\* stored partner of two distinct identities.
C3_OneToOne ==
    \A x \in Ids, y \in Ids :
        (x # y /\ get_partner(x) # None) => get_partner(x) # get_partner(y)

\* context.args of an update names its own chat: /link <own id>
names_self(u) ==
    /\ u.args # << >>
    /\ ~int_raises(u.args[1])
    /\ int(u.args[1]) = u.chat

\* C4: no identity is ever its own stored partner, and a /link whose target
\* is the invoking chat is answered without a call of set_pair (the store
\* and the file stay as they were).
C4_NoSelfPairing ==
    /\ [](\A a \in Ids : get_partner(a) # Some(a))
    /\ [][\A t \in Tasks :
            (starts(t, "/link") /\ names_self(update'[t])) =>
                /\ pc'[t] = "reply"
                /\ UNCHANGED <<_pairs, file>>]_vars

\* C4 witness: a /link naming the invoker itself (written with a leading
\* zero) has been rejected while the store holds pairings.
C4_Witness ==
    \E t \in Tasks :
        /\ update[t].command = "/link"
        /\ update[t].args = <<(<<"0", "1">>)>>
        /\ names_self(update[t])
        /\ pc[t] = "reply"
        /\ sent[t] = <<call("reply_text", cid(t), "self_link", None)>>
        /\ _pairs # EmptyDict

\* C5: when the store holds partner b for a, a step in which unlink_cmd
\* calls unlink(a) leaves neither a nor b with a partner and returns b.
C5_Unlink ==
    [][\A t \in Tasks :
        starts(t, "/unlink") =>
            LET a == update'[t].chat
            IN  \A b \in Ids :
                    get_partner(a) = Some(b) =>
                        /\ get_partner_after(a) = None
                        /\ get_partner_after(b) = None
                        /\ other'[t] = Some(b)]_vars

\* C5 witness: unlink(a) has returned a's partner b and neither has an
\* entry now.
C5_Witness ==
    \E t \in Tasks :
        /\ update[t].command = "/unlink"
        /\ pc[t] = "notify"
        /\ other[t] # None
        /\ other[t][1] # cid(t)
        /\ get_partner(cid(t)) = None
        /\ get_partner(other[t][1]) = None

\* C6: unlink(a) for an a without an entry returns None and leaves the
\* in-memory store as it was; after any unlink(a), a has no entry, so an
\* unlink(a) that follows at once returns None.
C6_UnlinkUnpaired ==
    [][\A t \in Tasks :
        starts(t, "/unlink") =>
            LET a == update'[t].chat
            IN  /\ get_partner_after(a) = None
                /\ get_partner(a) = None =>
                       (other'[t] = None /\ _pairs' = _pairs)]_vars

\* C6 witness: unlink(a) has returned None on a store that holds entries
\* of other identities.
C6_Witness ==
    \E t \in Tasks :
        /\ update[t].command = "/unlink"
        /\ pc[t] = "reply"
        /\ other[t] = None
        /\ sent[t] = <<call("reply_text", cid(t), "no_link", None)>>
        /\ _pairs # EmptyDict

\* A message relay_messages does not filter out: it comes from a private
\* chat and its author is no automated account.
relayable(u) ==
    /\ u.command = "text"
    /\ u.type = "private"
    /\ u.from_user # "bot"

copy_to(partner, chat) == call("copy_message", partner, "copy", Some(chat))

\* C7: for a relayable message, relay_messages delivers nothing exactly
\* when the store holds no entry for the sender; when it holds a partner,
\* whatever integer that is, exactly one copy to that partner is attempted.
C7_RelayIffPartner ==
    [][\A t \in Tasks :
        (starts(t, "text") /\ relayable(update'[t])) =>
            LET chat == update'[t].chat
                partner == get_partner(chat)
            IN  IF partner = None
                THEN pc'[t] = "done" /\ sent'[t] = << >>
                ELSE pc'[t] = "copy" /\ sent'[t] = <<copy_to(partner[1], chat)>>]_vars

\* C8: while <<s, t>> is linked (s ran /link t and neither has been named
\* in a /link or /unlink since), every relayable message from t is copied
\* to s and every relayable message from s is copied to t.
C8_LinkedRelay ==
    [][\A t \in Tasks :
        (starts(t, "text") /\ relayable(update'[t])) =>
            LET chat == update'[t].chat
            IN  \A p \in linked :
                    /\ chat = p[1] => sent'[t] = <<copy_to(p[2], chat)>>
                    /\ chat = p[2] => sent'[t] = <<copy_to(p[1], chat)>>]_vars

\* A /link that link_cmd must reject: no argument, an argument that is no
\* number, or the invoker's own identity
rejected_link(u) ==
    \/ u.args = << >>
    \/ int_raises(u.args[1])
    \/ int(u.args[1]) = u.chat

\* The reply a rejected /link is answered with
rejection(u) ==
    call("reply_text", u.chat,
         IF u.args = << >> THEN "need_id"
         ELSE IF int_raises(u.args[1]) THEN "not_number"
         ELSE "self_link",
         None)

C10_UnlinkOutcome ==
    [][\A t \in Tasks :
        /\ starts(t, "/unlink") =>
            LET chat == update'[t].chat
            IN  /\ other'[t] # None =>
                    /\ pc'[t] = "notify"
                    /\ sent'[t] = <<call("send_message", other'[t][1],
                                         "notify_unlinked", None)>>
                /\ sent'[t] = <<call("reply_text", chat, "no_link", None)>> =>
                    get_partner(chat) = None
        /\ (update[t].command = "/unlink" /\ pc[t] = "notify" /\ pc'[t] # "notify") =>
            /\ pc'[t] = "reply"
            /\ Len(sent'[t]) = Len(sent[t]) + 1
            /\ sent'[t][Len(sent'[t])] = call("reply_text", cid(t), "unlinked", None)]_vars

\* C11: the outcome of a best-effort call changes nothing else.  When the
\* awaited partner notification of /link or /unlink ends, returned or
\* raised, the store and the file stay as they are and the handler sends
\* the invoker the same confirmation; when the awaited copy_message of a
\* relay ends, returned or raised, the store and the file stay as they are
\* and the handler returns; and every handler that got that far ends with
\* the update answered.
C11_BestEffort ==
    [][\A t \in Tasks :
        /\ (pc[t] = "notify" /\ pc'[t] # "notify") =>
            /\ UNCHANGED <<_pairs, file>>
            /\ pc'[t] = "reply"
            /\ sent'[t][1].result \in Results
            /\ sent'[t][2] = confirmation(update[t], other[t])
            /\ update'[t] = update[t]
        /\ (pc[t] = "copy" /\ pc'[t] # "copy") =>
            /\ UNCHANGED <<_pairs, file>>
            /\ pc'[t] = "done"
            /\ sent'[t][1].result \in Results
        /\ (pc[t] \in {"reply", "done"} /\ pc'[t] # pc[t]) => pc'[t] = "idle"]_vars

\* C11 witness: the notification of a /link raised, the pairing is in the
\* store and in the file all the same, and the confirmation is on its way;
\* another task's copy_message has raised and its handler has returned.
C11_Witness ==
    \E t \in Tasks, s \in Tasks :
        /\ update[t].command = "/link"
        /\ pc[t] = "reply"
        /\ sent[t][1].result = "raised"
        /\ sent[t][2] = confirmation(update[t], other[t])
        /\ get_partner(cid(t)) = other[t]
        /\ get_partner(other[t][1]) = Some(cid(t))
        /\ file = [state |-> "json", data |-> json_dump(_pairs)]
        /\ pc[s] = "done"
        /\ sent[s] # << >>
        /\ sent[s][1].result = "raised"

\* A file load_pairs cannot turn into a store: no JSON, no JSON object, or
\* an object with a value int() raises on
malformed(f) ==
    \/ f.state \in {"corrupt", "array"}
    \/ f.state = "json" /\ \E k \in DOMAIN f.data : int_raises(f.data[k])

\* C14: load_pairs fails soft.  When the file is absent, cannot be read or
\* is malformed, on_startup's load_pairs ends with an empty store, whatever
\* the store held before, and on_startup goes on (the application serves).
C14_LoadFailsSoft ==
    [][(~up /\ up') =>
        ((file.state = "absent" \/ malformed(file) \/ faults' # faults) =>
            _pairs' = EmptyDict)]_vars

\* C14 witness: load_pairs has run on a JSON object that holds a good entry
\* and one whose value is no number; the store is empty and the
\* application serves.
C14_Witness ==
    /\ up
    /\ file.state = "json"
    /\ \E k \in DOMAIN file.data : int_raises(file.data[k])
    /\ \E k \in DOMAIN file.data : ~int_raises(file.data[k])
    /\ faults = 0
    /\ _pairs = EmptyDict

\* Every partner id up to MaxNumber, negative ones (group chats) included,
\* is read back by int() from the text json.dump writes for it.
NumbersRoundTrip ==
    \A n \in (0 - MaxNumber)..MaxNumber : int(json_int(n)) = n

\* C15: persistence round-trips.  While the application serves and no
\* file operation has failed, the mapping in the file (written by the last
\* save) parses back to the partner the store holds for every identity;
\* what a save writes for any reachable store, and for any partner id up to
\* MaxNumber, parses back to it; and a load_pairs that reads a file without
\* failing (a restart) leaves the store holding, for every identity, the
\* partner the file's mapping parses to.
C15_RoundTrip ==
    /\ [](NumbersRoundTrip)
    /\ []((up /\ faults = 0 /\ file.state = "json") =>
            \A x \in Ids : dict_get(json_load(file.data), str(x)) = get_partner(x))
    /\ [](\A x \in Ids :
            dict_get(json_load(json_dump(_pairs)), str(x)) = get_partner(x))
    /\ [][(~up /\ up' /\ faults' = faults /\ file.state = "json") =>
            \A x \in Ids :
                get_partner_after(x) = dict_get(json_load(file.data), str(x))]_vars

\* C15 witness: the application serves, with no update in flight, a store
\* with a pairing of 1 and 0 and a stale entry of 2; the store is saved and
\* the file parses back to it.
C15_Witness ==
    /\ up
    /\ faults = 0
    /\ linked = {}
    /\ \A t \in Tasks : pc[t] = "idle"
    /\ get_partner(1) = Some(0)
    /\ get_partner(0) = Some(1)
    /\ get_partner(2) = Some(1)
    /\ file = [state |-> "json", data |-> json_dump(_pairs)]
    /\ json_load(file.data) = _pairs

\* Task t has made a copy_message call for its update.
copied(t) == \E i \in 1..Len(sent[t]) : sent[t][i].api = "copy_message"

\* Task t is, or was, in forward_all for its update.
in_forward_all(t) ==
    /\ update[t].command \in {"text", "/other"}
    /\ pc[t] \in {"copy", "done"}

\* C16: in the forward-all program, under every accepted configuration, no
\* copy_message is made for a message that comes from the target chat.
C16_NoLoop ==
    \A t \in Tasks : (in_forward_all(t) /\ cid(t) = TARGET_CHAT_ID) => ~copied(t)

\* C16 witness: a message from the target chat has got past the source
\* check (the target is also the one accepted source) and forward_all has
\* returned without a copy.
C16_Witness ==
    \E t \in Tasks :
        /\ in_forward_all(t)
        /\ cid(t) = TARGET_CHAT_ID
        /\ SOURCE_CHAT_ID = Some(TARGET_CHAT_ID)
        /\ pc[t] = "done"
        /\ sent[t] = << >>

\* C17: in the forward-all program, when SOURCE_CHAT_ID is set to an
\* integer, a message is copied only if it comes from that chat; when it is
\* not set, every message that does not come from the target is copied.
C17_SourceRestriction ==
    \A t \in Tasks :
        in_forward_all(t) =>
            /\ (SOURCE_CHAT_ID # None /\ copied(t)) => cid(t) = SOURCE_CHAT_ID[1]
            /\ (SOURCE_CHAT_ID = None /\ cid(t) # TARGET_CHAT_ID) => copied(t)

\* C18: the update of a task that awaits the partner notification or the
\* copy_message is eventually answered (the task is idle again), whether
\* or not that call ever ends.
C18_AckEventually ==
    \A t \in Tasks : (pc[t] \in {"notify", "copy"}) ~> (pc[t] = "idle")

\* C19: a step in which unlink_cmd calls unlink(c) leaves get_partner(x) as
\* it was for every identity x other than c whose stored partner is not c.
C19_UnlinkFrame ==
    [][\A t \in Tasks :
        starts(t, "/unlink") =>
            LET c == update'[t].chat
            IN  \A x \in Ids \ {c} :
                    get_partner(x) # Some(c) =>
                        get_partner_after(x) = get_partner(x)]_vars

\* Task t runs set_pair or unlink in this step (in Spec a store operation
\* and its save are one step).
store_op(t) ==
    \/ starts(t, "/link") /\ pc'[t] = "notify"
    \/ starts(t, "/unlink")

\* C13: in a step in which set_pair or unlink runs (no other store
\* operation is in progress then), a save that succeeds leaves the file
\* holding a mapping equal to the in-memory store; a save that fails
\* leaves the in-memory store mutated all the same and the handler goes on
\* to its next call as if nothing had happened.  The first half holds for
\* every such step, also the next one after a failed save.
C13_SaveOutcome ==
    [][\A t \in Tasks :
        store_op(t) =>
            /\ _pairs' = IF update'[t].command = "/link"
                         THEN set_pair_store(update'[t].chat, other'[t][1])
                         ELSE unlink_store(update'[t].chat)
            /\ pc'[t] \in {"notify", "reply"}
            /\ Len(sent'[t]) = 1
            /\ faults' = faults =>
                /\ file'.state = "json"
                /\ json_load(file'.data) = _pairs']_vars

\* C13 witness: the save of a /link has failed while writing: the file
\* holds no mapping, the store holds the new pairing, and the handler is
\* at its notification.
C13_Witness ==
    \E t \in Tasks :
        /\ pc[t] = "notify"
        /\ update[t].command = "/link"
        /\ get_partner(cid(t)) = other[t]
        /\ get_partner(other[t][1]) = Some(cid(t))
        /\ file.state = "corrupt"
        /\ faults = 1

\* Task t is inside a store operation: set_pair / unlink has changed
\* _pairs and its save_pairs has not returned yet.
in_store_op(t) == pc[t] \in {"save_pairs", "wait_lock", "locked", "left", "raised"}

\* Task t is inside `async with _pairs_lock`.
in_with(t) == pc[t] \in {"locked", "left", "raised"}

\* C12: the mutation and the file write of a store operation are one
\* critical section.  No two tasks are inside a store operation at once;
\* from the mutation of _pairs by set_pair / unlink until its save_pairs
\* has returned nothing else changes _pairs, and the file changes only in
\* the operation's own write; a write that succeeds leaves in the file
\* exactly the in-memory store, which is what the operation made of the
\* store the operations before it had left.
C12_CriticalSection ==
    /\ [](\A s \in Tasks, t \in Tasks :
            (in_store_op(s) /\ in_store_op(t)) => s = t)
    /\ [][\A t \in Tasks :
            /\ (~in_store_op(t) /\ pc'[t] = "save_pairs") =>
                _pairs' = IF update'[t].command = "/link"
                          THEN set_pair_store(update'[t].chat, other'[t][1])
                          ELSE unlink_store(update'[t].chat)
            /\ in_store_op(t) =>
                /\ _pairs' = _pairs
                /\ file' # file => pc[t] = "locked"
            /\ (pc[t] = "locked" /\ pc'[t] = "left") =>
                file' = [state |-> "json", data |-> json_dump(_pairs)]]_vars

\* C12 witness: task t is inside the critical section of its store
\* operation, its write done, while the handler of another participant's
\* store operation is still in flight; the file holds exactly the store
\* both operations have produced.
C12_Witness ==
    \E s \in Tasks, t \in Tasks :
        /\ pc[t] = "left"
        /\ pc[s] \in {"notify", "reply"}
        /\ cid(s) # cid(t)
        /\ update[s].command = "/link"
        /\ get_partner(cid(s)) = other[s]
        /\ update[t].command = "/link"
        /\ get_partner(cid(t)) = other[t]
        /\ file = [state |-> "json", data |-> json_dump(_pairs)]

\* C20: the lock cannot deadlock.  At most one task is inside `async with
\* _pairs_lock`; the lock is locked exactly while a task is inside it, so
\* it is free again once load_pairs or save_pairs has left the block,
\* whether the file code returned or raised; and every store operation
\* that has started comes to its end.
C20_LockFree ==
    /\ [](\A s \in LockTasks, t \in LockTasks : (in_with(s) /\ in_with(t)) => s = t)
    /\ [](_pairs_lock <=> \E t \in LockTasks : in_with(t))
    /\ \A t \in Tasks : in_store_op(t) ~> ~in_store_op(t)

\* C20 witness: the file code of a save_pairs has raised, the lock is free
\* again, the handler has gone on to its next await, and another task is
\* inside the lock meanwhile.
C20_Witness ==
    \E s \in Tasks, t \in Tasks :
        /\ pc[s] \in {"notify", "reply"}
        /\ faults > 0
        /\ file.state = "corrupt"
        /\ pc[t] = "locked"
        /\ _pairs_lock

TypeOK ==
    /\ up \in BOOLEAN
    /\ faults \in 0..MaxFaults
    /\ \A t \in Tasks :
        /\ pc[t] \in {"idle", "notify", "reply", "copy", "done", "rejected"}
        /\ update[t] \in Updates \cup {NoUpdate}

====
